---- MODULE Spec2Model ----
(***************************************************************************)
(* RoadRegex (src/src/roadregex/regex.py): the fluent RegexBuilder, the    *)
(* Regex wrapper and the RegexExtractor registry, with the part of the     *)
(* pattern engine (Python's re) that the three classes call into.          *)
(*                                                                         *)
(* A text is a sequence of one-character strings.  An optional argument    *)
(* (max_count=None, name=None) is <<>> when absent and <<v>> when given.   *)
(***************************************************************************)
EXTENDS Integers, Sequences, FiniteSets, TLC

(***************************************************************************)
(* Characters.                                                             *)
(***************************************************************************)
Ascii ==
    <<"\t","\n"," ","!","\"","#","$","%","&","'","(",")","*","+",",","-",".","/",
      "0","1","2","3","4","5","6","7","8","9",":",";","<","=",">","?","@",
      "A","B","C","D","E","F","G","H","I","J","K","L","M","N","O","P","Q","R","S",
      "T","U","V","W","X","Y","Z","[","\\","]","^","_",
      "a","b","c","d","e","f","g","h","i","j","k","l","m","n","o","p","q","r","s",
      "t","u","v","w","x","y","z","{","|","}","~">>

AsciiSet == {Ascii[i] : i \in DOMAIN Ascii}

\* position of a character in the table: the order of the code points
CharCode == [c \in AsciiSet |-> CHOOSE i \in DOMAIN Ascii : Ascii[i] = c]

Ord(c) == CharCode[c]

DigitChars == <<"0","1","2","3","4","5","6","7","8","9">>

IsDigit(c) == Ord("0") <= Ord(c) /\ Ord(c) <= Ord("9")

IsUpper(c) == Ord("A") <= Ord(c) /\ Ord(c) <= Ord("Z")

IsLower(c) == Ord("a") <= Ord(c) /\ Ord(c) <= Ord("z")

IsAlnum(c) == IsDigit(c) \/ IsUpper(c) \/ IsLower(c)

IsWord(c) == IsAlnum(c) \/ c = "_"

IsSpace(c) == c \in {" ", "\t", "\n"}

LowerChar(c) == IF IsUpper(c) THEN Ascii[Ord(c) + (Ord("a") - Ord("A"))] ELSE c

UpperChar(c) == IF IsLower(c) THEN Ascii[Ord(c) - (Ord("a") - Ord("A"))] ELSE c

\* str.lower()
Lower(s) == [i \in DOMAIN s |-> LowerChar(s[i])]

\* "".join(parts)
RECURSIVE Join(_)
Join(ps) == IF ps = <<>> THEN <<>> ELSE Head(ps) \o Join(Tail(ps))

\* str(k) for a natural number k
RECURSIVE NatStr(_)
NatStr(k) ==
    IF k < 10 THEN <<DigitChars[k + 1]>>
    ELSE NatStr(k \div 10) \o <<DigitChars[(k % 10) + 1]>>

\* the text an f-string writes for {k}
IntStr(k) == IF k < 0 THEN <<"-">> \o NatStr(0 - k) ELSE NatStr(k)

\* an optional count in an f-string: None is written as the word None
OptStr(o) == IF o = <<>> THEN <<"N","o","n","e">> ELSE IntStr(o[1])

(***************************************************************************)
(* re.escape: a backslash before every character of the special set.       *)
(***************************************************************************)
SpecialChars ==
    {"(", ")", "[", "]", "{", "}", "?", "*", "+", "-", "|", "^", "$", "\\", ".",
     "&", "~", "#", " ", "\t", "\n"}

RECURSIVE Escape(_)
Escape(text) ==
    IF text = <<>> THEN <<>>
    ELSE (IF Head(text) \in SpecialChars THEN <<"\\", Head(text)>> ELSE <<Head(text)>>)
         \o Escape(Tail(text))

(***************************************************************************)
(* re.compile, the parser.  A parsed pattern is a tree of nodes:           *)
(*   lit c | any | cat x | set neg items | seq xs | alt a b                *)
(*   | rep min max mode x | grp idx x | at w                               *)
(* max = -1 is "no upper limit"; idx = 0 is a non-capturing group.         *)
(* Errors carry the message of re.error without its position and operands. *)
(***************************************************************************)
Lit(c) == [k |-> "lit", c |-> c]

AnyNode == [k |-> "any"]

Cat(x) == [k |-> "cat", x |-> x]

SetNode(neg, items) == [k |-> "set", neg |-> neg, items |-> items]

SeqNode(xs) == [k |-> "seq", xs |-> xs]

AltNode(a, b) == [k |-> "alt", a |-> a, b |-> b]

Rep(min, max, mode, x) == [k |-> "rep", min |-> min, max |-> max, mode |-> mode, x |-> x]

Grp(idx, x) == [k |-> "grp", idx |-> idx, x |-> x]

At(w) == [k |-> "at", w |-> w]

PErr(msg) == [err |-> msg, node |-> SeqNode(<<>>), i |-> 0, ng |-> 0, names |-> <<>>]

POk(node, i, ng, names) == [err |-> "", node |-> node, i |-> i, ng |-> ng, names |-> names]

Categories == {"d", "D", "w", "W", "s", "S"}

\* _escape: the code of \c outside a character set
EscapeCode(c) ==
    CASE c \in Categories -> [err |-> "", node |-> Cat(c)]
      [] c = "n" -> [err |-> "", node |-> Lit("\n")]
      [] c = "t" -> [err |-> "", node |-> Lit("\t")]
      [] c = "A" -> [err |-> "", node |-> At("bos")]
      [] c = "Z" -> [err |-> "", node |-> At("eos")]
      [] c = "b" -> [err |-> "", node |-> At("wb")]
      [] c = "B" -> [err |-> "", node |-> At("nwb")]
      [] IsAlnum(c) /\ c \notin (Categories \cup {"n", "t", "A", "Z", "b", "B"}) ->
            [err |-> "bad escape", node |-> SeqNode(<<>>)]
      [] OTHER -> [err |-> "", node |-> Lit(c)]

\* _class_escape: the code of \c inside a character set
ClassEscapeCode(c) ==
    CASE c \in Categories -> [err |-> "", item |-> [t |-> "cat", x |-> c]]
      [] c = "n" -> [err |-> "", item |-> [t |-> "c", c |-> "\n"]]
      [] c = "t" -> [err |-> "", item |-> [t |-> "c", c |-> "\t"]]
      [] IsAlnum(c) /\ c \notin (Categories \cup {"n", "t"}) ->
            [err |-> "bad escape", item |-> [t |-> "c", c |-> c]]
      [] OTHER -> [err |-> "", item |-> [t |-> "c", c |-> c]]

\* int(ds) for a run of digit characters
RECURSIVE StrNat(_)
StrNat(ds) ==
    IF ds = <<>> THEN 0
    ELSE StrNat(SubSeq(ds, 1, Len(ds) - 1)) * 10 + (Ord(ds[Len(ds)]) - Ord("0"))

\* the first position at or after j that holds no digit
RECURSIVE DigitsEnd(_, _)
DigitsEnd(s, j) == IF j <= Len(s) /\ IsDigit(s[j]) THEN DigitsEnd(s, j + 1) ELSE j

\* the quantifier that starts at s[i], one of * + ? {  (q = FALSE: a literal brace)
ReadQuant(s, i) ==
    CASE s[i] = "*" -> [q |-> TRUE, err |-> "", min |-> 0, max |-> -1, i |-> i + 1]
      [] s[i] = "+" -> [q |-> TRUE, err |-> "", min |-> 1, max |-> -1, i |-> i + 1]
      [] s[i] = "?" -> [q |-> TRUE, err |-> "", min |-> 0, max |-> 1, i |-> i + 1]
      [] OTHER ->
           LET j1 == DigitsEnd(s, i + 1)
               lo == SubSeq(s, i + 1, j1 - 1)
               comma == j1 <= Len(s) /\ s[j1] = ","
               j2 == IF comma THEN DigitsEnd(s, j1 + 1) ELSE j1
               hi == IF comma THEN SubSeq(s, j1 + 1, j2 - 1) ELSE lo
               min == IF lo = <<>> THEN 0 ELSE StrNat(lo)
               max == IF hi = <<>> THEN -1 ELSE StrNat(hi)
           IN  IF (i + 1 <= Len(s) /\ s[i + 1] = "}") \/ j2 > Len(s) \/ s[j2] # "}"
               THEN [q |-> FALSE, err |-> "", min |-> 0, max |-> 0, i |-> i + 1]
               ELSE [q |-> TRUE,
                     err |-> IF max # -1 /\ max < min
                             THEN "min repeat greater than max repeat" ELSE "",
                     min |-> min, max |-> max, i |-> j2 + 1]

\* str.isidentifier() on ASCII text
IsIdentifier(name) ==
    /\ name # <<>>
    /\ ~IsDigit(name[1])
    /\ \A j \in DOMAIN name : IsWord(name[j])

\* the first position at or after j that holds c, or 0
RECURSIVE FindChar(_, _, _)
FindChar(s, j, c) ==
    IF j > Len(s) THEN 0 ELSE IF s[j] = c THEN j ELSE FindChar(s, j + 1, c)

\* one item of a character set at position i (after [ and an optional ^):
\* done when the item is the closing ]
SetStep(s, i, items) ==
    IF i > Len(s)
    THEN [err |-> "unterminated character set", done |-> TRUE, items |-> items, i |-> i]
    ELSE IF s[i] = "]" /\ items # <<>>
    THEN [err |-> "", done |-> TRUE, items |-> items, i |-> i + 1]
    ELSE IF s[i] = "\\" /\ i = Len(s)
    THEN [err |-> "bad escape (end of pattern)", done |-> TRUE, items |-> items, i |-> i]
    ELSE
      LET w1 == IF s[i] = "\\" THEN 2 ELSE 1
          c1 == IF s[i] = "\\" THEN ClassEscapeCode(s[i + 1])
                ELSE [err |-> "", item |-> [t |-> "c", c |-> s[i]]]
          j == i + w1
          w2 == IF s[j + 1] = "\\" THEN 2 ELSE 1
          c2 == IF s[j + 1] = "\\" THEN ClassEscapeCode(s[j + 2])
                ELSE [err |-> "", item |-> [t |-> "c", c |-> s[j + 1]]]
          Bad(msg) == [err |-> msg, done |-> TRUE, items |-> items, i |-> j]
      IN  IF c1.err # "" THEN Bad(c1.err)
          ELSE IF j > Len(s) \/ s[j] # "-"
          THEN [err |-> "", done |-> FALSE, items |-> Append(items, c1.item), i |-> j]
          ELSE IF j + 1 > Len(s) THEN Bad("unterminated character set")
          ELSE IF s[j + 1] = "]"
          THEN [err |-> "", done |-> TRUE, i |-> j + 2,
                items |-> items \o <<c1.item, [t |-> "c", c |-> "-"]>>]
          ELSE IF s[j + 1] = "\\" /\ j + 1 = Len(s) THEN Bad("bad escape (end of pattern)")
          ELSE IF c2.err # "" THEN Bad(c2.err)
          ELSE IF c1.item.t # "c" \/ c2.item.t # "c" THEN Bad("bad character range")
          ELSE IF Ord(c2.item.c) < Ord(c1.item.c) THEN Bad("bad character range")
          ELSE [err |-> "", done |-> FALSE, i |-> j + 1 + w2,
                items |-> Append(items, [t |-> "r", lo |-> c1.item.c, hi |-> c2.item.c])]

\* the items of a character set, up to its closing ]
RECURSIVE ParseSetItems(_, _)
ParseSetItems(s, st) ==
    IF st.done THEN st ELSE ParseSetItems(s, SetStep(s, st.i, st.items))

\* a character set, from the position after its [
SetResult(neg, r) == [err |-> r.err, node |-> SetNode(neg, r.items), i |-> r.i]

ParseSet(s, i) ==
    IF i <= Len(s) /\ s[i] = "^"
    THEN SetResult(TRUE, ParseSetItems(s, SetStep(s, i + 1, <<>>)))
    ELSE SetResult(FALSE, ParseSetItems(s, SetStep(s, i, <<>>)))

\* the state of the parser inside one alternative: the items so far
SOk(i, ng, names, acc) == [err |-> "", i |-> i, ng |-> ng, names |-> names, acc |-> acc]

SErr(msg) == [err |-> msg, i |-> 0, ng |-> 0, names |-> <<>>, acc |-> <<>>]

\* the opening of a group, from the position after its (: its index (0 for
\* a non-capturing group), where its body starts, and the groups opened
GroupHead(s, i, ng, names) ==
    LET e == FindChar(s, i + 3, ">")
        name == SubSeq(s, i + 3, e - 1)
        Head_(idx, at, n, nm) ==
            [err |-> "", idx |-> idx, i |-> at, ng |-> n, names |-> nm]
        Bad(msg) == [err |-> msg, idx |-> 0, i |-> 0, ng |-> 0, names |-> <<>>]
    IN
    IF i > Len(s) \/ s[i] # "?" THEN Head_(ng + 1, i, ng + 1, Append(names, <<>>))
    ELSE IF i + 1 > Len(s) THEN Bad("unexpected end of pattern")
    ELSE IF s[i + 1] = ":" THEN Head_(0, i + 2, ng, names)
    ELSE IF s[i + 1] # "P" THEN Bad("unknown extension")
    ELSE IF i + 2 > Len(s) THEN Bad("unexpected end of pattern")
    ELSE IF s[i + 2] # "<" THEN Bad("unknown extension")
    ELSE IF e = 0 /\ i + 3 > Len(s) THEN Bad("missing group name")
    ELSE IF e = 0 THEN Bad("missing >, unterminated name")
    ELSE IF name = <<>> THEN Bad("missing group name")
    ELSE IF ~IsIdentifier(name) THEN Bad("bad character in group name")
    ELSE IF \E g \in DOMAIN names : names[g] = name THEN Bad("redefinition of group name")
    ELSE Head_(ng + 1, e + 1, ng + 1, Append(names, name))

\* the closing of a group whose body r has been parsed
GroupClose(s, idx, r) ==
    IF r.err # "" THEN r
    ELSE IF r.i > Len(s) \/ s[r.i] # ")" THEN PErr("missing ), unterminated subpattern")
    ELSE POk(Grp(idx, r.node), r.i + 1, r.ng, r.names)

\* a quantifier q applied to the last item of acc
QuantItem(s, i, ng, names, acc, q) ==
    IF ~q.q THEN SOk(i + 1, ng, names, Append(acc, Lit(s[i])))
    ELSE IF q.err # "" THEN SErr(q.err)
    ELSE IF acc = <<>> \/ acc[Len(acc)].k = "at" THEN SErr("nothing to repeat")
    ELSE IF acc[Len(acc)].k = "rep" THEN SErr("multiple repeat")
    ELSE
      LET lazy == q.i <= Len(s) /\ s[q.i] = "?"
          poss == q.i <= Len(s) /\ s[q.i] = "+"
          mode == IF lazy THEN "lazy" ELSE IF poss THEN "possessive" ELSE "greedy"
          i2 == IF lazy \/ poss THEN q.i + 1 ELSE q.i
      IN  SOk(i2, ng, names,
              Append(SubSeq(acc, 1, Len(acc) - 1), Rep(q.min, q.max, mode, acc[Len(acc)])))

EscapeItem(i, ng, names, acc, e) ==
    IF e.err # "" THEN SErr(e.err) ELSE SOk(i + 2, ng, names, Append(acc, e.node))

SetItem(ng, names, acc, r) ==
    IF r.err # "" THEN SErr(r.err) ELSE SOk(r.i, ng, names, Append(acc, r.node))

GroupItem(acc, g) ==
    IF g.err # "" THEN SErr(g.err) ELSE SOk(g.i, g.ng, g.names, Append(acc, g.node))

RECURSIVE ParseSub(_, _, _, _)
RECURSIVE ParseSeq(_, _)
RECURSIVE ParseGroup(_, _)
RECURSIVE ParseItem(_, _, _, _, _)
RECURSIVE SubAfter(_, _)

AltJoin(r, r2) ==
    IF r2.err # "" THEN r2 ELSE POk(AltNode(r.node, r2.node), r2.i, r2.ng, r2.names)

\* after one alternative r: a | starts the next one
SubAfter(s, r) ==
    IF r.err = "" /\ r.i <= Len(s) /\ s[r.i] = "|"
    THEN AltJoin(r, ParseSub(s, r.i + 1, r.ng, r.names))
    ELSE r

\* _parse_sub: the alternatives of one nesting level, up to ) or the end
ParseSub(s, i, ng, names) == SubAfter(s, ParseSeq(s, SOk(i, ng, names, <<>>)))

\* a group whose opening is hd
ParseGroup(s, hd) ==
    IF hd.err # "" THEN PErr(hd.err)
    ELSE GroupClose(s, hd.idx, ParseSub(s, hd.i, hd.ng, hd.names))

\* the item that starts at s[i]
ParseItem(s, i, ng, names, acc) ==
    CASE s[i] = "\\" ->
           IF i = Len(s) THEN SErr("bad escape (end of pattern)")
           ELSE EscapeItem(i, ng, names, acc, EscapeCode(s[i + 1]))
      [] s[i] = "[" -> SetItem(ng, names, acc, ParseSet(s, i + 1))
      [] s[i] \in {"*", "+", "?", "{"} -> QuantItem(s, i, ng, names, acc, ReadQuant(s, i))
      [] s[i] = "." -> SOk(i + 1, ng, names, Append(acc, AnyNode))
      [] s[i] = "^" -> SOk(i + 1, ng, names, Append(acc, At("bol")))
      [] s[i] = "$" -> SOk(i + 1, ng, names, Append(acc, At("eol")))
      [] s[i] = "(" -> GroupItem(acc, ParseGroup(s, GroupHead(s, i + 1, ng, names)))
      [] OTHER -> SOk(i + 1, ng, names, Append(acc, Lit(s[i])))

\* _parse: the items of one alternative, up to | or ) or the end
ParseSeq(s, st) ==
    IF st.err # "" THEN PErr(st.err)
    ELSE IF st.i > Len(s) \/ s[st.i] \in {"|", ")"}
    THEN POk(SeqNode(st.acc), st.i, st.ng, st.names)
    ELSE ParseSeq(s, ParseItem(s, st.i, st.ng, st.names, st.acc))

\* the result of re.compile from the parse r of the whole pattern
CompileFrom(pattern, fl, r) ==
    LET msg == IF r.err # "" THEN r.err
               ELSE IF r.i <= Len(pattern) THEN "unbalanced parenthesis" ELSE ""
    IN  [ok |-> msg = "", msg |-> msg, pattern |-> pattern, flags |-> fl,
         node |-> IF msg = "" THEN r.node ELSE SeqNode(<<>>),
         groups |-> IF msg = "" THEN r.ng ELSE 0,
         names |-> IF msg = "" THEN r.names ELSE <<>>]

\* re.compile(pattern, flags): the compiled pattern, or the re.error it raises
Compile(pattern, fl) == CompileFrom(pattern, fl, ParseSub(pattern, 1, 0, <<>>))

(***************************************************************************)
(* The flags of re, as the integers the code ORs into _flags.              *)
(***************************************************************************)
IGNORECASE == 2

MULTILINE == 8

HasFlag(flags, bit) == (flags \div bit) % 2 = 1

\* a | b on naturals
RECURSIVE BitOr(_, _)
BitOr(a, b) ==
    IF a = 0 THEN b
    ELSE IF b = 0 THEN a
    ELSE 2 * BitOr(a \div 2, b \div 2) + (IF a % 2 = 1 \/ b % 2 = 1 THEN 1 ELSE 0)

(***************************************************************************)
(* The matcher.  M(x, t, i, g, fl) is the list of the ways node x matches   *)
(* text t from position i (1-based), in the order the backtracking engine   *)
(* tries them; each way is [e |-> position after the match, g |-> the spans *)
(* of the capturing groups, <<-1, -1>> for a group that took no part].      *)
(***************************************************************************)
CharEq(pc, tc, fl) ==
    IF HasFlag(fl, IGNORECASE) THEN LowerChar(pc) = LowerChar(tc) ELSE pc = tc

InCat(x, c) ==
    CASE x = "d" -> IsDigit(c)
      [] x = "D" -> ~IsDigit(c)
      [] x = "w" -> IsWord(c)
      [] x = "W" -> ~IsWord(c)
      [] x = "s" -> IsSpace(c)
      [] x = "S" -> ~IsSpace(c)

InRange(lo, hi, c) == Ord(lo) <= Ord(c) /\ Ord(c) <= Ord(hi)

InItem(item, c, fl) ==
    CASE item.t = "c" -> CharEq(item.c, c, fl)
      [] item.t = "cat" -> InCat(item.x, c)
      [] item.t = "r" ->
           \/ InRange(item.lo, item.hi, c)
           \/ /\ HasFlag(fl, IGNORECASE)
              /\ \/ InRange(item.lo, item.hi, LowerChar(c))
                 \/ InRange(item.lo, item.hi, UpperChar(c))

InSet(x, c, fl) == x.neg # (\E j \in DOMAIN x.items : InItem(x.items[j], c, fl))

WordAt(t, i) == i >= 1 /\ i <= Len(t) /\ IsWord(t[i])

AtHolds(w, t, i, fl) ==
    CASE w = "bol" -> i = 1 \/ (HasFlag(fl, MULTILINE) /\ t[i - 1] = "\n")
      [] w = "eol" -> \/ i = Len(t) + 1
                      \/ i = Len(t) /\ t[i] = "\n"
                      \/ HasFlag(fl, MULTILINE) /\ t[i] = "\n"
      [] w = "bos" -> i = 1
      [] w = "eos" -> i = Len(t) + 1
      [] w = "wb" -> t # <<>> /\ WordAt(t, i - 1) # WordAt(t, i)
      [] w = "nwb" -> t # <<>> /\ WordAt(t, i - 1) = WordAt(t, i)

NoSpan == <<-1, -1>>

RECURSIVE M(_, _, _, _, _)
RECURSIVE MFlat(_, _, _, _)
RECURSIVE MSeq(_, _, _, _, _)
RECURSIVE MRep(_, _, _, _, _, _, _)
RECURSIVE MRepFlat(_, _, _, _, _, _)

\* the ways of x from each of the ways ps, in order
MFlat(x, t, ps, fl) ==
    IF ps = <<>> THEN <<>>
    ELSE M(x, t, Head(ps).e, Head(ps).g, fl) \o MFlat(x, t, Tail(ps), fl)

\* the items xs[k..] one after the other, from each of the ways ps
MSeq(xs, k, t, ps, fl) ==
    IF k > Len(xs) \/ ps = <<>> THEN ps
    ELSE MSeq(xs, k + 1, t, MFlat(xs[k], t, ps, fl), fl)

\* the repetition x continued after each of the ways ps of its body
MRepFlat(x, t, ps, fl, count, last) ==
    IF ps = <<>> THEN <<>>
    ELSE MRep(x, t, Head(ps).e, Head(ps).g, fl, count, last)
         \o MRepFlat(x, t, Tail(ps), fl, count, last)

\* the order in which a repetition tries one more iteration and stopping
RepOrder(x, must, here, more) ==
    IF must THEN more ELSE IF x.mode = "lazy" THEN here \o more ELSE more \o here

\* the repetition x at position i with `count` iterations done; `last` is
\* the position where the previous optional iteration began (the guard
\* against an iteration that matches nothing)
MRep(x, t, i, g, fl, count, last) ==
    IF count < x.min \/ ((x.max = -1 \/ count < x.max) /\ i # last)
    THEN RepOrder(x, count < x.min, <<[e |-> i, g |-> g]>>,
                  MRepFlat(x, t, M(x.x, t, i, g, fl), fl, count + 1,
                           IF count < x.min THEN last ELSE i))
    ELSE <<[e |-> i, g |-> g]>>

\* the ways ps of the body of group x, each with the group's span recorded
GrpWays(x, i, ps) ==
    IF x.idx = 0 THEN ps
    ELSE [j \in DOMAIN ps |->
            [e |-> ps[j].e, g |-> [ps[j].g EXCEPT ![x.idx] = <<i - 1, ps[j].e - 1>>]]]

\* a possessive repetition keeps only its first way
RepWays(x, ps) == IF x.mode = "possessive" /\ ps # <<>> THEN <<Head(ps)>> ELSE ps

M(x, t, i, g, fl) ==
    LET one(ok) == IF i <= Len(t) /\ ok THEN <<[e |-> i + 1, g |-> g]>> ELSE <<>>
    IN
    CASE x.k = "lit" -> one(CharEq(x.c, t[i], fl))
      [] x.k = "any" -> one(t[i] # "\n")
      [] x.k = "cat" -> one(InCat(x.x, t[i]))
      [] x.k = "set" -> one(InSet(x, t[i], fl))
      [] x.k = "at" -> IF AtHolds(x.w, t, i, fl) THEN <<[e |-> i, g |-> g]>> ELSE <<>>
      [] x.k = "seq" -> MSeq(x.xs, 1, t, <<[e |-> i, g |-> g]>>, fl)
      [] x.k = "alt" -> MFlat(x.a, t, <<[e |-> i, g |-> g]>>, fl)
                        \o MFlat(x.b, t, <<[e |-> i, g |-> g]>>, fl)
      [] x.k = "grp" -> GrpWays(x, i, MFlat(x.x, t, <<[e |-> i, g |-> g]>>, fl))
      [] x.k = "rep" -> RepWays(x, MRep(x, t, i, g, fl, 0, 0))

\* the first way in ps that the caller accepts: mode "any", "full" (ends at
\* the end of the text) or "advance" (not empty)
RECURSIVE FirstWay(_, _, _, _)
FirstWay(ps, mode, i, n) ==
    IF ps = <<>> THEN <<>>
    ELSE IF \/ mode = "any"
            \/ mode = "full" /\ Head(ps).e = n + 1
            \/ mode = "advance" /\ Head(ps).e # i
         THEN <<Head(ps)>>
         ELSE FirstWay(Tail(ps), mode, i, n)

\* the engine's match object for the way w (<<>> when there is none) of a
\* match attempt at position i
MatchObj(i, w) ==
    IF w = <<>> THEN <<>> ELSE <<[start |-> i - 1, end |-> w[1].e - 1, span |-> w[1].g]>>

\* one match attempt of the compiled pattern c at position i
MatchAt(c, t, i, mode) ==
    MatchObj(i, FirstWay(M(c.node, t, i, [j \in 1..c.groups |-> NoSpan], c.flags),
                         mode, i, Len(t)))

\* the scan of search and of the iterators: the first position at or after
\* i with a match; must_advance refuses an empty match at position i itself
RECURSIVE SearchFrom(_, _, _, _)
SearchOr(c, t, i, m) == IF m # <<>> \/ i > Len(t) THEN m ELSE SearchFrom(c, t, i + 1, FALSE)

SearchFrom(c, t, i, must_advance) ==
    SearchOr(c, t, i, MatchAt(c, t, i, IF must_advance THEN "advance" ELSE "any"))

\* the matches of finditer/findall from position pos on, in order
RECURSIVE ScanFrom(_, _, _, _)
ScanMore(c, t, m) ==
    IF m = <<>> THEN <<>>
    ELSE m \o ScanFrom(c, t, m[1].end + 1, m[1].end = m[1].start)

ScanFrom(c, t, pos, must_advance) == ScanMore(c, t, SearchFrom(c, t, pos, must_advance))

(***************************************************************************)
(* State.                                                                  *)
(*   parts, flags  RegexBuilder._parts and RegexBuilder._flags             *)
(*   log           the fragment-appending calls made on the builder, in    *)
(*                 order: log[i] is the call that appended parts[i]        *)
(*   limit         the number of fragments a run may append                *)
(*   call, result  the last call made and what it returned or raised       *)
(*   regex         the Regex object in use, <<>> before one is made        *)
(*   patterns      RegexExtractor.patterns, name -> Regex                  *)
(*   gen           the generator that Regex.find_iter returned             *)
(***************************************************************************)
VARIABLES parts, flags, log, limit, call, result, regex, patterns, gen

vars == <<parts, flags, log, limit, call, result, regex, patterns, gen>>

None == <<>>

Some(v) == <<v>>

Call(op, args) == [op |-> op, args |-> args]

Self == [kind |-> "self"]

Raise(exc, msg, pattern) == [kind |-> "raise", exc |-> exc, msg |-> msg, pattern |-> pattern]

\* Regex.__init__ with a compiled pattern c: self.compiled and self.pattern
RegexObj(c) == [pattern |-> c.pattern, compiled |-> c]

\* a generator of Regex.find_iter: the compiled pattern and the text it scans,
\* the scanner's position (1-based) and its must_advance mark, whether it
\* has finished, and the Match objects it has yielded
NewGen(c, text) ==
    [live |-> TRUE, compiled |-> c, text |-> text, pos |-> 1, must_advance |-> FALSE,
     done |-> FALSE, yielded |-> <<>>]

NoGen == [live |-> FALSE]

(***************************************************************************)
(* RegexBuilder: the fragment each appending method writes.                *)
(***************************************************************************)
\* literal() without re.escape: the text as it is
LiteralFragRaw(text) == text

\* re.escape(text)
LiteralFrag(text) == Escape(text)

DigitsFrag(min_count, max_count) ==
    IF max_count = None
    THEN <<"\\", "d", "{">> \o IntStr(min_count) \o <<",", "}">>
    ELSE <<"\\", "d", "{">> \o IntStr(min_count) \o <<",">> \o IntStr(max_count[1]) \o <<"}">>

OptionalFrag(pattern) == <<"(", "?", ":">> \o pattern \o <<")", "?">>

\* group() that drops the name: always the plain group
GroupFragUnnamed(pattern, name) == <<"(">> \o pattern \o <<")">>

GroupFrag(pattern, name) ==
    IF name # None /\ name[1] # <<>>
    THEN <<"(", "?", "P", "<">> \o name[1] \o <<">">> \o pattern \o <<")">>
    ELSE <<"(">> \o pattern \o <<")">>

\* '|'.join(escaped)
RECURSIVE JoinBar(_)
JoinBar(xs) ==
    IF xs = <<>> THEN <<>>
    ELSE IF Len(xs) = 1 THEN xs[1]
    ELSE xs[1] \o <<"|">> \o JoinBar(Tail(xs))

OneOfFrag(options) ==
    <<"(", "?", ":">> \o JoinBar([j \in DOMAIN options |-> Escape(options[j])]) \o <<")">>

CharClassFrag(chars) == <<"[">> \o chars \o <<"]">>

RepeatFrag(min_count, max_count) ==
    IF max_count = None
    THEN <<"{">> \o IntStr(min_count) \o <<",", "}">>
    ELSE <<"{">> \o IntStr(min_count) \o <<",">> \o IntStr(max_count[1]) \o <<"}">>

(***************************************************************************)
(* Bounds, and the arguments the builder's methods are called with.        *)
(***************************************************************************)
MaxParts == 2

MaxGroupCalls == 3

LiteralTexts == {<<>>, <<"a", ".">>}

\* (min_count, max_count): a proper range, a negative minimum, max < min
QuantArgs == {<<1, Some(2)>>, <<-1, None>>, <<2, Some(1)>>}

OptionalArgs == {<<"a">>}

\* (pattern, name)
GroupArgs == {<<<<"a">>, None>>, <<<<"a">>, Some(<<>>)>>, <<<<"a">>, Some(<<"n">>)>>}

OneOfArgs == {<<>>, << <<"a">>, <<"|">> >>}

CharClassArgs == {<<"a", "b">>, <<>>}

(***************************************************************************)
(* RegexBuilder: one action per method.                                    *)
(***************************************************************************)
BuilderFrame == UNCHANGED <<limit, regex, patterns, gen>>

\* the runs append at most `limit` fragments
CanAppend == Len(parts) < limit

\* an append that puts the fragment in front of the others
AppendPartFront(op, args, frag) ==
    /\ parts' = <<frag>> \o parts
    /\ log' = Append(log, Call(op, args))
    /\ call' = Call(op, args)
    /\ result' = Self
    /\ UNCHANGED flags
    /\ BuilderFrame

\* self._parts.append(frag); return self
AppendPart(op, args, frag) ==
    /\ parts' = Append(parts, frag)
    /\ log' = Append(log, Call(op, args))
    /\ call' = Call(op, args)
    /\ result' = Self
    /\ UNCHANGED flags
    /\ BuilderFrame

Literal(text) ==
    /\ CanAppend
    /\ AppendPart("literal", <<text>>, LiteralFrag(text))

AnyChar ==
    /\ CanAppend
    /\ AppendPart("any_char", <<>>, <<".">>)

Digit ==
    /\ CanAppend
    /\ AppendPart("digit", <<>>, <<"\\", "d">>)

Digits(min_count, max_count) ==
    /\ CanAppend
    /\ AppendPart("digits", <<min_count, max_count>>, DigitsFrag(min_count, max_count))

Word ==
    /\ CanAppend
    /\ AppendPart("word", <<>>, <<"\\", "w", "+">>)

WordChar ==
    /\ CanAppend
    /\ AppendPart("word_char", <<>>, <<"\\", "w">>)

Whitespace ==
    /\ CanAppend
    /\ AppendPart("whitespace", <<>>, <<"\\", "s">>)

Optional(pattern) ==
    /\ CanAppend
    /\ AppendPart("optional", <<pattern>>, OptionalFrag(pattern))

Group(pattern, name) ==
    /\ CanAppend
    /\ AppendPart("group", <<pattern, name>>, GroupFrag(pattern, name))

OneOf(options) ==
    /\ CanAppend
    /\ AppendPart("one_of", <<options>>, OneOfFrag(options))

CharClass(chars) ==
    /\ CanAppend
    /\ AppendPart("char_class", <<chars>>, CharClassFrag(chars))

Repeat(min_count, max_count) ==
    /\ CanAppend
    /\ AppendPart("repeat", <<min_count, max_count>>, RepeatFrag(min_count, max_count))

Start ==
    /\ CanAppend
    /\ AppendPart("start", <<>>, <<"^">>)

End ==
    /\ CanAppend
    /\ AppendPart("end", <<>>, <<"$">>)

\* return self, from a method that leaves the fragments alone
ReturnSelf(op) ==
    /\ call' = Call(op, <<>>)
    /\ result' = Self
    /\ UNCHANGED <<parts, log>>
    /\ BuilderFrame

\* case_insensitive() that assigns the flag instead of or-ing it in
CaseInsensitiveAssign ==
    /\ flags' = IGNORECASE
    /\ ReturnSelf("case_insensitive")

\* self._flags |= re.IGNORECASE; return self
CaseInsensitive ==
    /\ flags' = BitOr(flags, IGNORECASE)
    /\ ReturnSelf("case_insensitive")

\* self._flags |= re.MULTILINE; return self
Multiline ==
    /\ flags' = BitOr(flags, MULTILINE)
    /\ ReturnSelf("multiline")

\* what re.compile(pattern, flags) returns or raises, from its outcome c
CompileOutcome(c) ==
    IF c.ok THEN [kind |-> "Pattern", pattern |-> c.pattern, flags |-> c.flags,
                  compiled |-> c]
    ELSE Raise("re.error", c.msg, c.pattern)

CompileResult(pattern, fl) == CompileOutcome(Compile(pattern, fl))

\* re.compile("".join(self._parts), self._flags) in the current state
BuildResult == CompileResult(Join(parts), flags)

\* build() that empties the builder once it has compiled
BuildAndClear ==
    /\ call' = Call("build", <<>>)
    /\ result' = BuildResult
    /\ parts' = <<>>
    /\ log' = <<>>
    /\ UNCHANGED flags
    /\ BuilderFrame

\* return re.compile("".join(self._parts), self._flags)
Build ==
    /\ call' = Call("build", <<>>)
    /\ result' = BuildResult
    /\ UNCHANGED <<parts, flags, log>>
    /\ BuilderFrame

\* pattern() that joins the fragments last to first
PatternReversed ==
    /\ call' = Call("pattern", <<>>)
    /\ result' = [kind |-> "str",
                  text |-> Join([j \in DOMAIN parts |-> parts[Len(parts) + 1 - j]])]
    /\ UNCHANGED <<parts, flags, log>>
    /\ BuilderFrame

\* return "".join(self._parts)
Pattern ==
    /\ call' = Call("pattern", <<>>)
    /\ result' = [kind |-> "str", text |-> Join(parts)]
    /\ UNCHANGED <<parts, flags, log>>
    /\ BuilderFrame

\* RegexBuilder(): a fresh builder
NewBuilder(n) ==
    /\ parts = <<>>
    /\ flags = 0
    /\ log = <<>>
    /\ limit = n
    /\ call = Call("__init__", <<>>)
    /\ result = Self
    /\ regex = None
    /\ patterns = <<>>
    /\ gen = NoGen

Init == NewBuilder(MaxParts)

Next ==
    \/ \E text \in LiteralTexts : Literal(text)
    \/ AnyChar
    \/ Digit
    \/ \E q \in QuantArgs : Digits(q[1], q[2])
    \/ Word
    \/ WordChar
    \/ Whitespace
    \/ \E p \in OptionalArgs : Optional(p)
    \/ \E g \in GroupArgs : Group(g[1], g[2])
    \/ \E o \in OneOfArgs : OneOf(o)
    \/ \E chars \in CharClassArgs : CharClass(chars)
    \/ \E q \in QuantArgs : Repeat(q[1], q[2])
    \/ Start
    \/ End
    \/ CaseInsensitive
    \/ Multiline
    \/ Build
    \/ Pattern

Spec == Init /\ [][Next]_vars

(***************************************************************************)
(* The builder with named groups: group() with names that repeat and with  *)
(* subpatterns that are not patterns on their own, among quantifier and    *)
(* character-class fragments.                                              *)
(***************************************************************************)
NamedGroupArgs ==
    {<<<<"a">>, None>>, <<<<"a">>, Some(<<"n">>)>>, <<<<"b">>, Some(<<"n">>)>>,
     <<<<"a">>, Some(<<"m">>)>>, <<<<"a">>, Some(<<"1">>)>>,
     <<<<"[">>, Some(<<"n">>)>>, <<<<"]">>, Some(<<"n">>)>>}

InitGroups == NewBuilder(MaxGroupCalls)

NextGroups ==
    \/ \E g \in NamedGroupArgs : Group(g[1], g[2])
    \/ \E q \in QuantArgs : Repeat(q[1], q[2])
    \/ \E chars \in CharClassArgs : CharClass(chars)
    \/ Build

SpecGroups == InitGroups /\ [][NextGroups]_vars

(***************************************************************************)
(* Regex: the wrapper of one compiled pattern.                             *)
(***************************************************************************)
RegexFrame == UNCHANGED <<parts, flags, log, limit, patterns>>

\* m.group(k) of a group with span sp: its text, None when it took no part
GroupText(t, sp) == IF sp = NoSpan THEN None ELSE Some(SubSeq(t, sp[1] + 1, sp[2]))

\* Match(text=m.group(0), start=m.start(), end=m.end(), groups=m.groups(),
\*       groupdict=m.groupdict()) of the engine's match object m
MatchOf(c, t, m) ==
    [kind |-> "Match", text |-> SubSeq(t, m.start + 1, m.end),
     start |-> m.start, end |-> m.end,
     groups |-> [j \in 1..c.groups |-> GroupText(t, m.span[j])],
     groupdict |-> [nm \in {c.names[j] : j \in 1..c.groups} \ {<<>>} |->
                      GroupText(t, m.span[CHOOSE j \in 1..c.groups : c.names[j] = nm])]]

\* what a group contributes to an item of findall: "" when it took no part
GroupOrEmpty(t, sp) == IF sp = NoSpan THEN <<>> ELSE SubSeq(t, sp[1] + 1, sp[2])

\* the item of findall for the match m: the matched text, the text of the
\* only group, or the tuple of the texts of the groups
FindAllItem(c, t, m) ==
    IF c.groups = 0 THEN SubSeq(t, m.start + 1, m.end)
    ELSE IF c.groups = 1 THEN GroupOrEmpty(t, m.span[1])
    ELSE [j \in 1..c.groups |-> GroupOrEmpty(t, m.span[j])]

FindAllItems(c, t, ms) == [k \in DOMAIN ms |-> FindAllItem(c, t, ms[k])]

\* Regex.find_all: self.compiled.findall(text)
FindAll(rx, t) == FindAllItems(rx.compiled, t, ScanFrom(rx.compiled, t, 1, FALSE))

\* self.compiled.fullmatch(text) is not None
FullMatches(rx, t) == MatchAt(rx.compiled, t, 1, "full") # <<>>

\* Regex(pattern, flags) with the pattern as text: re.compile may raise
NewRegex(pattern, fl) ==
    LET c == Compile(pattern, fl)
    IN  /\ regex = None
        /\ call' = Call("Regex", <<pattern, fl>>)
        /\ regex' = IF c.ok THEN Some(RegexObj(c)) ELSE regex
        /\ result' = IF c.ok THEN Self ELSE Raise("re.error", c.msg, pattern)
        /\ UNCHANGED gen
        /\ RegexFrame

\* Regex(p) with p the compiled pattern that the last build() returned
NewRegexOfPattern ==
    /\ call.op = "build" /\ result.kind = "Pattern"
    /\ call' = Call("Regex", <<result.pattern>>)
    /\ regex' = Some(RegexObj(result.compiled))
    /\ result' = Self
    /\ UNCHANGED gen
    /\ RegexFrame

\* Regex.is_full_match(text)
IsFullMatch(text) ==
    /\ regex # None
    /\ call' = Call("is_full_match", <<text>>)
    /\ result' = [kind |-> "bool", v |-> FullMatches(regex[1], text)]
    /\ UNCHANGED <<regex, gen>>
    /\ RegexFrame

\* Regex.find_iter(text): the generator, which has not looked at the text yet
FindIter(text) ==
    /\ regex # None
    /\ call' = Call("find_iter", <<text>>)
    /\ gen' = NewGen(regex[1].compiled, text)
    /\ result' = [kind |-> "generator"]
    /\ UNCHANGED regex
    /\ RegexFrame

\* a scanner that does not remember an empty match
GenAfterStuck(g, m) ==
    IF m = <<>> THEN [g EXCEPT !.done = TRUE]
    ELSE [g EXCEPT !.pos = m[1].end + 1,
                   !.must_advance = FALSE,
                   !.yielded = Append(@, MatchOf(g.compiled, g.text, m[1]))]

\* the generator after the scanner returned m: exhausted, or past m
GenAfter(g, m) ==
    IF m = <<>> THEN [g EXCEPT !.done = TRUE]
    ELSE [g EXCEPT !.pos = m[1].end + 1,
                   !.must_advance = (m[1].end = m[1].start),
                   !.yielded = Append(@, MatchOf(g.compiled, g.text, m[1]))]

\* what next() returns: the Match yielded, or StopIteration
GenResult(g, m) ==
    IF m = <<>> THEN Raise("StopIteration", "", g.compiled.pattern)
    ELSE MatchOf(g.compiled, g.text, m[1])

GenStep(m) ==
    /\ gen' = GenAfter(gen, m)
    /\ result' = GenResult(gen, m)

\* next() on the generator: one round of "for m in self.compiled.finditer(text):
\* yield Match(...)"; an exhausted generator raises StopIteration again
GenNext ==
    /\ gen.live
    /\ call' = Call("next", <<>>)
    /\ IF gen.done
       THEN /\ result' = Raise("StopIteration", "", gen.compiled.pattern)
            /\ UNCHANGED gen
       ELSE GenStep(SearchFrom(gen.compiled, gen.text, gen.pos, gen.must_advance))
    /\ UNCHANGED regex
    /\ RegexFrame

(***************************************************************************)
(* A builder with literal() alone, built, wrapped in a Regex and asked     *)
(* whether it matches a text entirely.                                     *)
(***************************************************************************)
MaxLitLen == 2

MaxTextLen == 2

LitChars == {"a", ".", "\\", "*", "+", "?", "(", ")", "[", "]", "{", "}", "|", "^", "$", "-"}

TextChars == {"a", "."}

Strings(chars, n) == UNION {[1..k -> chars] : k \in 0..n}

\* the texts of the literal() calls made, concatenated
LiteralsOf(l) == Join([j \in DOMAIN l |-> l[j].args[1]])

\* the texts that is_full_match is asked about: the literal itself, its
\* escaped form, the literal with a character more, and the short texts
ProbeTexts ==
    {LiteralsOf(log), Escape(LiteralsOf(log)), LiteralsOf(log) \o <<"a">>}
        \cup Strings(TextChars, MaxTextLen)

InitLit == NewBuilder(1)

NextLit ==
    \/ /\ call.op = "__init__"
       /\ \E text \in Strings(LitChars, MaxLitLen) : Literal(text)
    \/ Build
    \/ NewRegexOfPattern
    \/ \E text \in ProbeTexts : IsFullMatch(text)

SpecLit == InitLit /\ [][NextLit]_vars

\* C1: a fresh builder on which only literal(L) was called builds, with no
\* flags, a pattern that matches a text T entirely if and only if T = L.
C1_LiteralMatchesItselfOnly ==
    /\ call.op = "build" => result.kind = "Pattern"
    /\ call.op = "is_full_match" =>
          (flags = 0 /\ result.v = (call.args[1] = LiteralsOf(log)))

C1_Witness ==
    /\ call.op = "is_full_match" /\ result.v
    /\ Len(log) = 1 /\ log[1].op = "literal"
    /\ log[1].args[1] = <<"(", ".">>

(***************************************************************************)
(* A Regex and the generator that its find_iter returns.                   *)
(***************************************************************************)
MaxIterLen == 3

IterChars == {"a", "b"}

IterPatterns ==
    {<<>>, <<"a", "*">>, <<"|", "a">>, <<"a", "|">>, <<"a", "?", "?">>,
     <<"(", "a", ")", "|">>, <<"(", "?", "P", "<", "x", ">", "a", "|", ")", "b", "?">>,
     <<"b", "*">>, <<"^">>, <<"$">>, <<"\\", "b">>, <<"a">>, <<"a", "b">>, <<"(">>}

InitIter == NewBuilder(0)

NextIter ==
    \/ \E p \in IterPatterns : \E fl \in {0, IGNORECASE} : NewRegex(p, fl)
    \/ \E text \in Strings(IterChars, MaxIterLen) : FindIter(text)
    \/ GenNext

SpecIter == InitIter /\ [][NextIter]_vars

\* the compiled pattern c matches the empty string
CanMatchEmpty(c) == MatchAt(c, <<>>, 1, "any") # <<>>

\* the matches ys come left to right and do not overlap
InOrder(ys) ==
    \A k \in 1..(Len(ys) - 1) :
        /\ ys[k].start <= ys[k + 1].start
        /\ ys[k].end <= ys[k + 1].start

\* C9 as stated: over a pattern that can match the empty string and a text of
\* length n, the matches of find_iter come in order, do not overlap, and are
\* at most n + 1.
C9_AtMostLenPlusOne ==
    (gen.live /\ CanMatchEmpty(gen.compiled)) =>
        /\ InOrder(gen.yielded)
        /\ Len(gen.yielded) <= Len(gen.text) + 1

\* how far the scanner of the generator g has come: twice the characters it
\* is past, and one more when it must not match the empty string where it is
Progress(g) == 2 * (g.pos - 1) + (IF g.must_advance THEN 1 ELSE 0)

\* C9 amended: over a pattern that can match the empty string and a text of
\* length n, find_iter comes to its end: every next() ends the iteration or
\* yields one match and moves the scanner on, which can happen 2n + 1 times;
\* the matches come in order, do not overlap, and are at most 2n + 1.
C9_TerminatesWithinTwiceLenPlusOne ==
    [][(gen'.live /\ CanMatchEmpty(gen'.compiled)) =>
          /\ InOrder(gen'.yielded)
          /\ Len(gen'.yielded) <= 2 * Len(gen'.text) + 1
          /\ Progress(gen') <= 2 * Len(gen'.text) + 1
          /\ (call'.op = "next" /\ ~gen.done) =>
                \/ gen'.done /\ gen'.yielded = gen.yielded
                \/ /\ Len(gen'.yielded) = Len(gen.yielded) + 1
                   /\ Progress(gen') > Progress(gen)]_vars

C9_Witness ==
    /\ gen.live /\ gen.done /\ CanMatchEmpty(gen.compiled)
    /\ Len(gen.text) = MaxIterLen
    /\ Len(gen.yielded) = 2 * Len(gen.text) + 1

(***************************************************************************)
(* CommonPatterns and RegexExtractor, the registry of named patterns.      *)
(***************************************************************************)
EMAIL == <<"[", "a", "-", "z", "A", "-", "Z", "0", "-", "9", ".", "_", "%", "+", "-",
    "]", "+", "@", "[", "a", "-", "z", "A", "-", "Z", "0", "-", "9", ".", "-", "]",
    "+", "\\", ".", "[", "a", "-", "z", "A", "-", "Z", "]", "{", "2", ",", "}">>

URL == <<"h", "t", "t", "p", "s", "?", ":", "/", "/", "[", "^", "\\", "s", "/", "$",
    ".", "?", "#", "]", ".", "[", "^", "\\", "s", "]", "*">>

PHONE_US == <<"\\", "(", "?", "\\", "d", "{", "3", "}", "\\", ")", "?", "[", "-",
    ".", "\\", "s", "]", "?", "\\", "d", "{", "3", "}", "[", "-", ".", "\\", "s",
    "]", "?", "\\", "d", "{", "4", "}">>

DATE_ISO == <<"\\", "d", "{", "4", "}", "-", "\\", "d", "{", "2", "}", "-", "\\",
    "d", "{", "2", "}">>

DATE_US == <<"\\", "d", "{", "1", ",", "2", "}", "/", "\\", "d", "{", "1", ",", "2",
    "}", "/", "\\", "d", "{", "2", ",", "4", "}">>

TIME_24H == <<"\\", "d", "{", "2", "}", ":", "\\", "d", "{", "2", "}", "(", ":",
    "\\", "d", "{", "2", "}", ")", "?">>

IPv4 == <<"\\", "d", "{", "1", ",", "3", "}", "\\", ".", "\\", "d", "{", "1", ",",
    "3", "}", "\\", ".", "\\", "d", "{", "1", ",", "3", "}", "\\", ".", "\\", "d",
    "{", "1", ",", "3", "}">>

MAC_ADDRESS == <<"(", "[", "0", "-", "9", "A", "-", "F", "a", "-", "f", "]", "{",
    "2", "}", ":", ")", "{", "5", "}", "[", "0", "-", "9", "A", "-", "F", "a", "-",
    "f", "]", "{", "2", "}">>

HEX_COLOR == <<"#", "[", "0", "-", "9", "A", "-", "F", "a", "-", "f", "]", "{", "3",
    ",", "6", "}">>

UUID == <<"[", "0", "-", "9", "a", "-", "f", "]", "{", "8", "}", "-", "[", "0", "-",
    "9", "a", "-", "f", "]", "{", "4", "}", "-", "[", "0", "-", "9", "a", "-", "f",
    "]", "{", "4", "}", "-", "[", "0", "-", "9", "a", "-", "f", "]", "{", "4", "}",
    "-", "[", "0", "-", "9", "a", "-", "f", "]", "{", "1", "2", "}">>

ZIP_US == <<"\\", "d", "{", "5", "}", "(", "-", "\\", "d", "{", "4", "}", ")", "?">>

CREDIT_CARD == <<"\\", "d", "{", "4", "}", "[", "-", " ", "]", "?", "\\", "d", "{",
    "4", "}", "[", "-", " ", "]", "?", "\\", "d", "{", "4", "}", "[", "-", " ", "]",
    "?", "\\", "d", "{", "4", "}">>

SSN == <<"\\", "d", "{", "3", "}", "-", "\\", "d", "{", "2", "}", "-", "\\", "d",
    "{", "4", "}">>

USERNAME == <<"[", "a", "-", "z", "A", "-", "Z", "]", "[", "a", "-", "z", "A", "-",
    "Z", "0", "-", "9", "_", "]", "{", "2", ",", "1", "9", "}">>

SLUG == <<"[", "a", "-", "z", "0", "-", "9", "]", "+", "(", "?", ":", "-", "[", "a",
    "-", "z", "0", "-", "9", "]", "+", ")", "*">>

\* dir(CommonPatterns): the attribute names in sorted order, each with its value
CommonPatternsDir ==
    <<<<<<"C", "R", "E", "D", "I", "T", "_", "C", "A", "R", "D">>, CREDIT_CARD>>,
      <<<<"D", "A", "T", "E", "_", "I", "S", "O">>, DATE_ISO>>,
      <<<<"D", "A", "T", "E", "_", "U", "S">>, DATE_US>>,
      <<<<"E", "M", "A", "I", "L">>, EMAIL>>,
      <<<<"H", "E", "X", "_", "C", "O", "L", "O", "R">>, HEX_COLOR>>,
      <<<<"I", "P", "v", "4">>, IPv4>>,
      <<<<"M", "A", "C", "_", "A", "D", "D", "R", "E", "S", "S">>, MAC_ADDRESS>>,
      <<<<"P", "H", "O", "N", "E", "_", "U", "S">>, PHONE_US>>,
      <<<<"S", "L", "U", "G">>, SLUG>>,
      <<<<"S", "S", "N">>, SSN>>,
      <<<<"T", "I", "M", "E", "_", "2", "4", "H">>, TIME_24H>>,
      <<<<"U", "R", "L">>, URL>>,
      <<<<"U", "S", "E", "R", "N", "A", "M", "E">>, USERNAME>>,
      <<<<"U", "U", "I", "D">>, UUID>>,
      <<<<"Z", "I", "P", "_", "U", "S">>, ZIP_US>>,
      <<<<"_", "_", "d", "o", "c", "_", "_">>, <<>>>>,
      <<<<"_", "_", "m", "o", "d", "u", "l", "e", "_", "_">>, <<>>>>>>

StartsWith(s, c) == s # <<>> /\ s[1] = c

\* for name in dir(CommonPatterns): if not name.startswith("_"):
\*     self.patterns[name.lower()] = Regex(pattern, re.IGNORECASE)
RECURSIVE RegisterCommonPatterns(_, _, _)
RegisterCommonPatterns(dir, k, reg) ==
    IF k > Len(dir) THEN reg
    ELSE IF StartsWith(dir[k][1], "_") THEN RegisterCommonPatterns(dir, k + 1, reg)
    ELSE RegisterCommonPatterns(dir, k + 1,
            [n \in DOMAIN reg \cup {Lower(dir[k][1])} |->
                IF n = Lower(dir[k][1]) THEN RegexObj(Compile(dir[k][2], IGNORECASE))
                ELSE reg[n]])

\* RegexExtractor(): the registry with the common patterns in it
NewExtractor ==
    /\ parts = <<>>
    /\ flags = 0
    /\ log = <<>>
    /\ limit = 0
    /\ call = Call("__init__", <<>>)
    /\ result = Self
    /\ regex = None
    /\ gen = NoGen
    /\ patterns = RegisterCommonPatterns(CommonPatternsDir, 1, <<>>)

ExtractorFrame == UNCHANGED <<parts, flags, log, limit, regex, gen>>

MaxRegistered == 1

\* the names that register() has added to the registry of the constructor
Registered == DOMAIN patterns \ {Lower(CommonPatternsDir[k][1]) : k \in DOMAIN CommonPatternsDir}

\* self.patterns[name] = Regex(pattern, flags), with c what re.compile gives
RegisterAs(name, pattern, fl, c) ==
    /\ call' = Call("register", <<name, pattern, fl>>)
    /\ IF c.ok
       THEN /\ patterns' = [n \in DOMAIN patterns \cup {name} |->
                               IF n = name THEN RegexObj(c) ELSE patterns[n]]
            /\ result' = [kind |-> "None"]
       ELSE /\ result' = Raise("re.error", c.msg, pattern)
            /\ UNCHANGED patterns

\* RegexExtractor.register(name, pattern, flags)
Register(name, pattern, fl) ==
    /\ name \in DOMAIN patterns \/ Cardinality(Registered) < MaxRegistered
    /\ RegisterAs(name, pattern, fl, Compile(pattern, fl))
    /\ ExtractorFrame

\* extract() with self.patterns[name]: KeyError for a name not registered
ExtractStrict(name, text) ==
    /\ call' = Call("extract", <<name, text>>)
    /\ result' = IF name \in DOMAIN patterns
                 THEN [kind |-> "list", v |-> FindAll(patterns[name], text)]
                 ELSE Raise("KeyError", "", name)
    /\ UNCHANGED patterns
    /\ ExtractorFrame

\* RegexExtractor.extract(name, text)
Extract(name, text) ==
    /\ call' = Call("extract", <<name, text>>)
    /\ result' = [kind |-> "list",
                  v |-> IF name \in DOMAIN patterns THEN FindAll(patterns[name], text)
                        ELSE <<>>]
    /\ UNCHANGED patterns
    /\ ExtractorFrame

\* the dictionary that extract_all returns, from the findall of every pattern
NonEmptyResults(all) == [n \in {m \in DOMAIN all : all[m] # <<>>} |-> all[n]]

\* RegexExtractor.extract_all(text)
ExtractAll(text) ==
    /\ call' = Call("extract_all", <<text>>)
    /\ result' = [kind |-> "dict",
                  v |-> NonEmptyResults([n \in DOMAIN patterns |-> FindAll(patterns[n], text)])]
    /\ UNCHANGED patterns
    /\ ExtractorFrame

\* RegexExtractor.validate(name, text)
Validate(name, text) ==
    /\ call' = Call("validate", <<name, text>>)
    /\ result' = [kind |-> "bool",
                  v |-> IF name \in DOMAIN patterns THEN FullMatches(patterns[name], text)
                        ELSE FALSE]
    /\ UNCHANGED patterns
    /\ ExtractorFrame

RegisterNames == {<<"t", "a", "g">>, <<"T", "a", "g">>, <<"U", "R", "L">>, <<"s", "l", "u", "g">>}

\* a pattern and the flags to register it with; the last is not a pattern
RegisterArgs ==
    {<<<<"\\", "d", "+">>, 0>>, <<<<"(", "a", ")", "(", "b", ")", "?">>, IGNORECASE>>,
     <<<<"(">>, 0>>}

LookupNames ==
    {<<"t", "a", "g">>, <<"T", "a", "g">>, <<"u", "r", "l">>, <<"U", "R", "L">>,
     <<"s", "l", "u", "g">>, <<"t", "i", "m", "e", "_", "2", "4", "h">>,
     <<"n", "o", "p", "e">>}

ExtractorTexts == {<<>>, <<"1", "2">>, <<"A", "b", "a">>, <<"1", "2", ":", "3", "4">>}

InitReg == NewExtractor

NextReg ==
    \/ \E name \in RegisterNames : \E a \in RegisterArgs : Register(name, a[1], a[2])
    \/ \E name \in LookupNames : \E text \in ExtractorTexts : Extract(name, text)
    \/ \E text \in ExtractorTexts : ExtractAll(text)
    \/ \E name \in LookupNames : \E text \in ExtractorTexts : Validate(name, text)

SpecReg == InitReg /\ [][NextReg]_vars

\* C4: after the constructor and any register() calls, every key of the
\* registry is lower-case.
C4_KeysAreLowerCase == \A n \in DOMAIN patterns : n = Lower(n)

\* C8: for a name that is not a key of the registry, extract returns the empty
\* list and validate returns False; neither raises, neither changes the
\* registry.
C8_UnknownNameIsEmpty ==
    [][(call'.op \in {"extract", "validate"} /\ call'.args[1] \notin DOMAIN patterns) =>
          /\ patterns' = patterns
          /\ call'.op = "extract" => result' = [kind |-> "list", v |-> <<>>]
          /\ call'.op = "validate" => result' = [kind |-> "bool", v |-> FALSE]]_vars

C8_Witness ==
    /\ call.op = "extract" /\ call.args[1] \notin DOMAIN patterns
    /\ call.args[1] = <<"U", "R", "L">>
    /\ call.args[2] # <<>>
    /\ Registered # {}

(***************************************************************************)
(* Properties of the builder.                                              *)
(***************************************************************************)
AppendOps ==
    {"literal", "any_char", "digit", "digits", "word", "word_char", "whitespace",
     "optional", "group", "one_of", "char_class", "repeat", "start", "end"}

FlagOps == {"case_insensitive", "multiline"}

FinalOps == {"build", "pattern"}

\* the fragment that the appending call c is documented to write
FragOf(c) ==
    CASE c.op = "literal" -> Escape(c.args[1])
      [] c.op = "any_char" -> <<".">>
      [] c.op = "digit" -> <<"\\", "d">>
      [] c.op = "digits" -> DigitsFrag(c.args[1], c.args[2])
      [] c.op = "word" -> <<"\\", "w", "+">>
      [] c.op = "word_char" -> <<"\\", "w">>
      [] c.op = "whitespace" -> <<"\\", "s">>
      [] c.op = "optional" -> OptionalFrag(c.args[1])
      [] c.op = "group" -> GroupFrag(c.args[1], c.args[2])
      [] c.op = "one_of" -> OneOfFrag(c.args[1])
      [] c.op = "char_class" -> CharClassFrag(c.args[1])
      [] c.op = "repeat" -> RepeatFrag(c.args[1], c.args[2])
      [] c.op = "start" -> <<"^">>
      [] c.op = "end" -> <<"$">>

\* the fragments of the calls made, concatenated in the order of the calls
TextOfCalls(l) == Join([j \in DOMAIN l |-> FragOf(l[j])])

\* a quantifier range that is malformed: negative minimum, or max < min
BadRange(args) == args[1] < 0 \/ (args[2] # None /\ args[2][1] < args[1])

\* C2: digits(min, max) and repeat(min, max) with a negative min, or with
\* max given and max < min, fail at that call with InvalidQuantifier.
C2_MalformedRangeFailsEagerly ==
    (call.op \in {"digits", "repeat"} /\ BadRange(call.args))
        => (result.kind = "raise" /\ result.exc = "InvalidQuantifier")

\* group() was called twice with the same non-empty name
DupNamed(l) ==
    \E i \in DOMAIN l : \E j \in DOMAIN l :
        /\ i < j
        /\ l[i].op = "group" /\ l[j].op = "group"
        /\ l[i].args[2] # None /\ l[i].args[2][1] # <<>>
        /\ l[i].args[2] = l[j].args[2]

\* every raw argument (subpattern, character-class body) given so far is a
\* pattern on its own
RawOk(l) ==
    \A i \in DOMAIN l :
        /\ l[i].op \in {"group", "optional"} => Compile(l[i].args[1], 0).ok
        /\ l[i].op = "char_class" => Compile(CharClassFrag(l[i].args[1]), 0).ok

\* every group name given so far is an identifier
NamesAreIdentifiers(l) ==
    \A i \in DOMAIN l :
        (l[i].op = "group" /\ l[i].args[2] # None /\ l[i].args[2][1] # <<>>)
            => IsIdentifier(l[i].args[2][1])

NoQuantifierCall(l) == \A i \in DOMAIN l : l[i].op \notin {"digits", "repeat"}

\* build() failed: re.compile raised its error, the only one build() can
\* raise, and returned no pattern
FailsToCompile(r) == r.kind = "raise" /\ r.exc = "re.error"

\* the error that reports a group name used twice
DuplicateGroupName(r) == FailsToCompile(r) /\ r.msg = "redefinition of group name"

C5_FlagsOnlyGrow ==
    [][/\ BitOr(flags, flags') = flags'
       /\ call'.op \notin FlagOps => flags' = flags
       /\ (call'.op = "case_insensitive" /\ HasFlag(flags, IGNORECASE)) => flags' = flags
       /\ (call'.op = "multiline" /\ HasFlag(flags, MULTILINE)) => flags' = flags]_vars

C5_Witness ==
    /\ call.op = "case_insensitive"
    /\ HasFlag(flags, IGNORECASE) /\ HasFlag(flags, MULTILINE)
    /\ parts # <<>>

\* C6: build() and pattern() leave fragments and flags as they were, two
\* finalizations in a row return the same, and a fragment appended after a
\* build() extends the sequence that was built.
C6_FinalizeKeepsState ==
    [][/\ call'.op \in FinalOps => (parts' = parts /\ flags' = flags /\ log' = log)
       /\ (call.op = call'.op /\ call'.op \in FinalOps) => result' = result
       /\ (call.op = "build" /\ call'.op \in AppendOps)
             => parts' = Append(parts, FragOf(call'))]_vars

C6_Witness ==
    /\ call.op = "build" /\ result.kind = "Pattern"
    /\ Len(parts) = 2 /\ flags # 0

\* C7: the text pattern() returns is the text build() compiles in the same
\* state, the fragments of the calls made, concatenated in call order.
C7_PatternTextIsBuildText ==
    call.op = "pattern" =>
        /\ result.text = BuildResult.pattern
        /\ result.text = TextOfCalls(log)

C7_Witness ==
    /\ call.op = "pattern"
    /\ Len(parts) = 2 /\ parts[1] # parts[2] /\ parts[1] # <<>> /\ parts[2] # <<>>

\* C10: every appending call adds exactly one fragment at the end and leaves
\* the earlier ones as they were; the flag calls leave the fragments alone.
C10_AppendOnly ==
    [][/\ Len(parts) <= Len(parts') /\ SubSeq(parts', 1, Len(parts)) = parts
       /\ call'.op \in AppendOps => Len(parts') = Len(parts) + 1
       /\ call'.op \in FlagOps => parts' = parts]_vars

C10_Witness == call.op \in AppendOps /\ Len(parts) = 2 /\ parts[1] # parts[2]

====
